---- MODULE Spec2Model ----
(***************************************************************************)
(* Model of src/app.py: a Streamlit script that turns an uploaded image    *)
(* into a story (Gemini) and reads it aloud (ElevenLabs, fallback gTTS).   *)
(*                                                                         *)
(* One script run executes the file top to bottom: API configuration       *)
(* (lines 20-56), the upload column (173-190), the prompt and voice        *)
(* options column (193-277) and the button handler (280-329).  Streamlit   *)
(* re-runs the whole script, in a fresh namespace, on every interaction.   *)
(*                                                                         *)
(* Encodings.  A Python str is a sequence of character codes (a = 1 ..     *)
(* z = 26), so "" is << >> and str comparison is lexicographic.  None in a *)
(* str position is PyNone.  A story is a sequence of words.  bytes are     *)
(* sequences of byte values.  Slider values are hundredths (0.75 is 75).   *)
(***************************************************************************)
EXTENDS Integers, Sequences, FiniteSets, TLC

\* ------------------------------------------------------------------ bounds
\* Longest voice list voices.get_all() returns in the model.
MaxVoices == 2
\* Longest chunk stream client.generate() returns in the model.
MaxChunks == 2

\* ------------------------------------------------------------- Python values
\* None where a str is expected (0 is no character code).
PyNone == <<0>>
\* Python truthiness of a str-or-None value.
Truthy(s) == s # PyNone /\ s # << >>

\* Voice names.
Aria == <<1, 18, 9, 1>>
Bella == <<2, 5, 12, 12, 1>>
Rachel == <<18, 1, 3, 8, 5, 12>>

\* a < b for two str values (Python's lexicographic order).
StrLess(a, b) ==
    \E i \in 1..Len(b) :
        /\ i <= Len(a) + 1
        /\ \A j \in 1..(i - 1) : a[j] = b[j]
        /\ (i = Len(a) + 1 \/ a[i] < b[i])

\* The elements of a sequence, as list(set(...)) keeps them.
ToSet(seq) == {seq[i] : i \in DOMAIN seq}

RECURSIVE SortedList(_)
\* list.sort() of a set of str values.
SortedList(S) ==
    IF S = {} THEN << >>
    ELSE LET m == CHOOSE x \in S : \A y \in S : x = y \/ StrLess(x, y)
         IN  <<m>> \o SortedList(S \ {m})

\* list.sort() raises TypeError when it has to compare None with a str.
SortRaises(S) == PyNone \in S /\ Cardinality(S) > 1

\* All sequences over S of length at most n.
SeqsUpTo(S, n) == UNION {[1..k -> S] : k \in 0..n}

RECURSIVE Concat(_)
\* b"".join(chunks)
Concat(chunks) ==
    IF chunks = << >> THEN << >> ELSE Head(chunks) \o Concat(Tail(chunks))

\* str.startswith on word sequences.
StartsWith(s, p) == Len(s) >= Len(p) /\ SubSeq(s, 1, Len(p)) = p

\* --------------------------------------------------------------- bytes, audio
\* A name that was never assigned in this script run.
Unbound == [tag |-> "unbound", data |-> << >>]
NoneBytes == [tag |-> "None", data |-> << >>]
Bytes(d) == [tag |-> "bytes", data |-> d]
\* Truthiness of a bytes-or-None value.
TruthyBytes(b) == b.tag = "bytes" /\ b.data # << >>

\* ------------------------------------------------------------ voice_settings
NoneSettings == [isNone |-> TRUE, keys |-> {}, stability |-> 0, clarity |-> 0]
\* A dict holding the given keys.
Mapping(ks, s, c) ==
    [isNone |-> FALSE, keys |-> ks,
     stability |-> IF "stability" \in ks THEN s ELSE 0,
     clarity |-> IF "clarity" \in ks THEN c ELSE 0]
\* Truthiness of a dict-or-None value.
TruthySettings(vs) == ~vs.isNone /\ vs.keys # {}

\* The VoiceSettings object handed to client.generate, or none.
NoPayload == [present |-> FALSE, stability |-> 0, similarity_boost |-> 0]

\* One call to a backend.
Call(op, text, voice, payload) ==
    [op |-> op, text |-> text, voice |-> voice, payload |-> payload]

\* ------------------------------------------------------- environment values
\* A voice record of the catalog: what its .name attribute is.
VoiceNamed(n) == [attr |-> "str", name |-> n]
VoiceNoneName == [attr |-> "None", name |-> PyNone]
VoiceNoName == [attr |-> "missing", name |-> << >>]
VoiceRaising == [attr |-> "raises", name |-> << >>]
VoiceRecords ==
    {VoiceNamed(Aria), VoiceNamed(Bella), VoiceNamed(<< >>), VoiceNoneName, VoiceNoName,
     VoiceRaising}
VoiceLists == SeqsUpTo(VoiceRecords, MaxVoices)

\* A Python object that is, or is not, a list of voice records.
ListObj(l) == [isList |-> TRUE, list |-> l]
NotList == [isList |-> FALSE, list |-> << >>]

\* The shapes voices.get_all() can return.
AsResponse(l) == [shape |-> "GetVoicesResponse", elems |-> <<ListObj(l)>>]
AsTuple(l) == [shape |-> "tuple", elems |-> <<NotList, ListObj(l)>>]
AsList(l) == [shape |-> "list", elems |-> <<ListObj(l)>>]
ResponseNoList == [shape |-> "GetVoicesResponse", elems |-> <<NotList>>]
ShortTuple(l) == [shape |-> "tuple", elems |-> <<ListObj(l)>>]
OtherShape == [shape |-> "other", elems |-> << >>]
GetAllRaised == [shape |-> "raise", elems |-> << >>]
NoResult == [shape |-> "unset", elems |-> << >>]

CatalogResults ==
    {AsResponse(l) : l \in VoiceLists} \cup {AsTuple(l) : l \in VoiceLists}
    \cup {AsList(l) : l \in VoiceLists}
    \cup {ResponseNoList, ShortTuple(<<VoiceNamed(Aria)>>), OtherShape, GetAllRaised}

\* The slider positions the model tries (st.slider 0.0 .. 1.0, step 0.01).
SliderStops == {30, 90}

\* ----------------------------------------------------- voice catalog resolver
\* app.py:214-228 reading the tuple's first element instead of its second.
ExtractVoicesList_TupleFirst(r) ==
    IF r.shape = "GetVoicesResponse" /\ r.elems[1].isList
    THEN [list |-> r.elems[1].list, ui |-> << >>]
    ELSE IF r.shape = "tuple" /\ Len(r.elems) > 1 /\ r.elems[2].isList
    THEN [list |-> r.elems[1].list, ui |-> <<"info: tuple structure">>]
    ELSE IF r.shape = "list"
    THEN [list |-> r.elems[1].list, ui |-> <<"info: direct list">>]
    ELSE [list |-> << >>, ui |-> <<"warning: unexpected structure">>]

\* app.py:214-228: the list of voice objects in voices_result, and the notes shown.
ExtractVoicesList(r) ==
    IF r.shape = "GetVoicesResponse" /\ r.elems[1].isList
    THEN [list |-> r.elems[1].list, ui |-> << >>]
    ELSE IF r.shape = "tuple" /\ Len(r.elems) > 1 /\ r.elems[2].isList
    THEN [list |-> r.elems[2].list, ui |-> <<"info: tuple structure">>]
    ELSE IF r.shape = "list"
    THEN [list |-> r.elems[1].list, ui |-> <<"info: direct list">>]
    ELSE [list |-> << >>, ui |-> <<"warning: unexpected structure">>]

RECURSIVE ExtractNames(_)
\* app.py:231-249: the names appended, and one warning per skipped item.
ExtractNames(l) ==
    IF l = << >> THEN [names |-> << >>, ui |-> << >>]
    ELSE LET rest == ExtractNames(Tail(l))
             v == Head(l)
         IN  IF v.attr \in {"str", "None"}
             THEN [names |-> <<v.name>> \o rest.names, ui |-> rest.ui]
             ELSE IF v.attr = "missing"
             THEN [names |-> rest.names,
                   ui |-> <<"warning: item has no .name">> \o rest.ui]
             ELSE [names |-> rest.names,
                   ui |-> <<"warning: error processing item">> \o rest.ui]

\* app.py:209-264 with an except clause (261-264) that leaves selected_voice None.
ResolveVoices_NoDefault(r, order) ==
    IF r.shape = "raise"
    THEN [voice_names |-> << >>, options |-> {PyNone}, raised |-> TRUE,
          ui |-> <<"error: could not fetch voices">>]
    ELSE LET got == ExtractVoicesList(r)
             ex == ExtractNames(got.list)
             S == ToSet(ex.names)
         IN  IF SortRaises(S)
             THEN [voice_names |-> order, options |-> {PyNone}, raised |-> TRUE,
                   ui |-> got.ui \o ex.ui \o <<"error: could not fetch voices">>]
             ELSE IF S # {}
             THEN [voice_names |-> SortedList(S), options |-> S, raised |-> FALSE,
                   ui |-> got.ui \o ex.ui \o <<"selectbox">>]
             ELSE [voice_names |-> << >>, options |-> {Rachel}, raised |-> FALSE,
                   ui |-> got.ui \o ex.ui \o <<"warning: no usable voices">>]

\* app.py:209-264: the try block of the voice options.  `order` is the order
\* list(set(...)) happens to give, which is what voice_names holds when sort raises.
ResolveVoices(r, order) ==
    IF r.shape = "raise"
    THEN [voice_names |-> << >>, options |-> {Rachel}, raised |-> TRUE,
          ui |-> <<"error: could not fetch voices">>]
    ELSE LET got == ExtractVoicesList(r)
             ex == ExtractNames(got.list)
             S == ToSet(ex.names)
         IN  IF SortRaises(S)
             THEN [voice_names |-> order, options |-> {Rachel}, raised |-> TRUE,
                   ui |-> got.ui \o ex.ui \o <<"error: could not fetch voices">>]
             ELSE IF S # {}
             THEN [voice_names |-> SortedList(S), options |-> S, raised |-> FALSE,
                   ui |-> got.ui \o ex.ui \o <<"selectbox">>]
             ELSE [voice_names |-> << >>, options |-> {Rachel}, raised |-> FALSE,
                   ui |-> got.ui \o ex.ui \o <<"warning: no usable voices">>]

\* The orders list(set(names)) can give.
Orders(r) ==
    LET S == IF r.shape = "raise" THEN {}
             ELSE ToSet(ExtractNames(ExtractVoicesList(r).list).names)
    IN  IF SortRaises(S)
        THEN {o \in [1..Cardinality(S) -> S] : ToSet(o) = S}
        ELSE {<< >>}

\* ---------------------------------------------------------- narrative generator
\* The three failure sentinels of generate_story_from_image (app.py:63, 94, 99).
StoryUnavailable ==
    <<"Story", "generation", "unavailable", "due", "to", "API", "configuration", "issues.">>
StoryMalformed ==
    <<"Could", "not", "generate", "a", "story", "from", "the", "image.">>
StoryError(e) == <<"An", "error", "occurred", "during", "story", "generation:", e>>

\* What vision_model.generate_content can do.
GeminiRaises == [kind |-> "raise", text |-> << >>]
GeminiMalformed == [kind |-> "malformed", text |-> << >>]
GeminiText(t) == [kind |-> "text", text |-> t]
GeminiTexts ==
    {<< >>, <<"Once", "upon", "a", "time">>,
     <<"An", "error", "occurred", "at", "the", "bakery">>,
     <<"Story", "generation", "unavailable", "said", "the", "sign">>}
GeminiOutcomes == {GeminiRaises, GeminiMalformed} \cup {GeminiText(t) : t \in GeminiTexts}

\* app.py:60-99
generate_story_from_image(configured, gem) ==
    IF ~configured
    THEN [story |-> StoryUnavailable, ui |-> << >>, calls |-> << >>]
    ELSE LET call == <<Call("generate_content", << >>, PyNone, NoPayload)>>
         IN  IF gem.kind = "raise"
             THEN [story |-> StoryError("quota"), ui |-> <<"error: Gemini API Error">>,
                   calls |-> call]
             ELSE IF gem.kind = "malformed"
             THEN [story |-> StoryMalformed,
                   ui |-> <<"warning: unexpected response structure">>, calls |-> call]
             ELSE [story |-> gem.text, ui |-> << >>, calls |-> call]

\* app.py:301 without its "Could not generate" test.
StoryAccepted_NoMalformedCheck(story) ==
    /\ story # << >>
    /\ ~StartsWith(story, <<"An", "error", "occurred">>)
    /\ ~StartsWith(story, <<"Story", "generation", "unavailable">>)

\* app.py:301: the story is shown and spoken.
StoryAccepted(story) ==
    /\ story # << >>
    /\ ~StartsWith(story, <<"An", "error", "occurred">>)
    /\ ~StartsWith(story, <<"Story", "generation", "unavailable">>)
    /\ ~StartsWith(story, <<"Could", "not", "generate">>)

\* -------------------------------------------------------------- speech backends
\* What a speech backend can do: raise, return something that is no iterator, or
\* return a stream that yields `chunks` and then ends or raises; and what the
\* temporary file does (tmp).
Chunks == {<<1>>, <<2, 3>>}
BackendRaises == [kind |-> "raise", chunks |-> << >>, raises |-> FALSE, tmp |-> "ok"]
BackendNotIterable == [kind |-> "noniter", chunks |-> << >>, raises |-> FALSE, tmp |-> "ok"]
BackendStream(c, r, t) == [kind |-> "stream", chunks |-> c, raises |-> r, tmp |-> t]
NoBackend == [kind |-> "none", chunks |-> << >>, raises |-> FALSE, tmp |-> "ok"]
ElevenLabsOutcomes ==
    {BackendRaises, BackendNotIterable}
    \cup {BackendStream(c, TRUE, "ok") : c \in SeqsUpTo(Chunks, MaxChunks)}
    \cup {BackendStream(c, FALSE, t) :
            c \in SeqsUpTo(Chunks, MaxChunks), t \in {"ok", "create_fails", "write_fails"}}
GttsOutcomes ==
    {BackendRaises} \cup {BackendStream(c, FALSE, "ok") : c \in SeqsUpTo(Chunks, MaxChunks)}

\* voice_settings.get("stability", 0.5)
DefaultStability == 50
\* voice_settings.get("clarity", 0.75)
DefaultClarity == 75

\* app.py:117-125 with the two slider values crossed.
SettingsPayload_Swapped(vs) ==
    IF TruthySettings(vs)
    THEN [present |-> TRUE,
          stability |-> IF "clarity" \in vs.keys THEN vs.clarity ELSE DefaultClarity,
          similarity_boost |->
              IF "stability" \in vs.keys THEN vs.stability ELSE DefaultStability]
    ELSE NoPayload

\* app.py:117-125: the VoiceSettings object built from the slider values.
SettingsPayload(vs) ==
    IF TruthySettings(vs)
    THEN [present |-> TRUE,
          stability |-> IF "stability" \in vs.keys THEN vs.stability ELSE DefaultStability,
          similarity_boost |-> IF "clarity" \in vs.keys THEN vs.clarity ELSE DefaultClarity]
    ELSE NoPayload

\* app.py:141-146: the staging file after the with block and the unlink.
StageTempFile(tmp) ==
    IF tmp = "create_fails" THEN [file |-> "none", raised |-> TRUE]
    ELSE IF tmp = "write_fails" THEN [file |-> "exists", raised |-> TRUE]
    ELSE [file |-> "unlinked", raised |-> FALSE]

\* app.py:138: b"".join(list(audio_stream)) of a stream that ends normally.
ReadStream(env) == Concat(env.chunks)

\* What a speech function hands back: its return value, the backend calls it made,
\* what it rendered, the staging file's state and the exception it lets out.
Returned(ret, called, shown, file) ==
    [ret |-> ret, calls |-> called, ui |-> shown, file |-> file, raised |-> "none"]

\* app.py:102-151 with an except clause that returns what was read so far.
convert_text_to_speech_elevenlabs_Partial(client, text, voice, vs, env) ==
    IF text = << >> \/ client = "None"
    THEN Returned(NoneBytes, << >>, << >>, "none")
    ELSE LET call == <<Call("generate", text, voice, SettingsPayload(vs))>>
             failed == <<"error: ElevenLabs speech conversion">>
         IN  IF env.kind = "raise"
             THEN Returned(NoneBytes, call, failed, "none")
             ELSE IF env.kind = "noniter"
             THEN Returned(NoneBytes, call, <<"error: not an iterable stream">>, "none")
             ELSE IF env.raises
             THEN Returned(Bytes(ReadStream(env)), call, failed, "none")
             ELSE LET staged == StageTempFile(env.tmp)
                  IN  IF staged.raised
                      THEN Returned(NoneBytes, call, failed, staged.file)
                      ELSE Returned(Bytes(ReadStream(env)), call, << >>, staged.file)

\* app.py:102-151.  Everything after the guard runs inside try/except Exception:
\* the except clause renders a diagnostic and returns None.
convert_text_to_speech_elevenlabs(client, text, voice, vs, env) ==
    IF text = << >> \/ client = "None"
    THEN Returned(NoneBytes, << >>, << >>, "none")
    ELSE LET call == <<Call("generate", text, voice, SettingsPayload(vs))>>
             failed == <<"error: ElevenLabs speech conversion">>
         IN  IF env.kind = "raise"
             THEN Returned(NoneBytes, call, failed, "none")
             ELSE IF env.kind = "noniter"
             THEN Returned(NoneBytes, call, <<"error: not an iterable stream">>, "none")
             ELSE IF env.raises
             THEN Returned(NoneBytes, call, failed, "none")
             ELSE LET staged == StageTempFile(env.tmp)
                  IN  IF staged.raised
                      THEN Returned(NoneBytes, call, failed, staged.file)
                      ELSE Returned(Bytes(ReadStream(env)), call, << >>, staged.file)

\* app.py:153-165
convert_text_to_speech_gtts(text, env) ==
    IF text = << >>
    THEN Returned(NoneBytes, << >>, << >>, "none")
    ELSE LET call == <<Call("gTTS", text, PyNone, NoPayload)>>
         IN  IF env.kind = "raise"
             THEN Returned(NoneBytes, call, <<"error: gTTS conversion">>, "none")
             ELSE Returned(Bytes(ReadStream(env)), call, << >>, "none")

VARIABLES
    pc,                    \* position of the script run
    gemini_api_configured, \* app.py:27
    elevenlabs_client,     \* app.py:36  "None" or "client"
    elevenlabs_configured, \* app.py:37
    uploaded_file,         \* app.py:175 "None" or "file"
    story_prompt,          \* app.py:195 a word sequence
    voices_result,         \* app.py:211 what voices.get_all() returned
    voice_names,           \* app.py:231
    selected_voice,        \* app.py:203
    voice_settings,        \* app.py:204
    generated_story,       \* app.py:299
    audio_stream,          \* app.py:129 what the speech backend did
    audio_bytes,           \* app.py:309
    temp_file,             \* app.py:141 "none", "exists" or "unlinked"
    ui,                    \* the elements rendered so far, in order
    calls,                 \* the backend calls made so far, in order
    exception              \* the exception that ended the script run, or "none"

vars == <<pc, gemini_api_configured, elevenlabs_client, elevenlabs_configured,
          uploaded_file, story_prompt, voices_result, voice_names,
          selected_voice, voice_settings, generated_story, audio_stream,
          audio_bytes, temp_file, ui, calls, exception>>

\* ------------------------------------------------------------------- script run
Init ==
    /\ pc = "configure"
    /\ gemini_api_configured = FALSE
    /\ elevenlabs_client = "None"
    /\ elevenlabs_configured = FALSE
    /\ uploaded_file = "None"
    /\ story_prompt = << >>
    /\ voices_result = NoResult
    /\ voice_names = << >>
    /\ selected_voice = PyNone
    /\ voice_settings = NoneSettings
    /\ generated_story = << >>
    /\ audio_stream = NoBackend
    /\ audio_bytes = Unbound
    /\ temp_file = "none"
    /\ ui = << >>
    /\ calls = << >>
    /\ exception = "none"

\* app.py:36-56: the client and the flag after the ElevenLabs configuration block.
\* key: the secret is "absent" (or empty), "present", or reading it raises;
\* ctor: ElevenLabs(api_key=...) returns or raises; probe: voices.get_all() at 47.
ElevenLabsConfiguration(key, ctor, probe) ==
    IF key = "raise"
    THEN [client |-> "None", configured |-> FALSE, calls |-> << >>,
          ui |-> <<"error: ElevenLabs key retrieval">>]
    ELSE IF key = "absent"
    THEN [client |-> "None", configured |-> FALSE, calls |-> << >>, ui |-> << >>]
    ELSE IF ctor = "raise"
    THEN [client |-> "None", configured |-> FALSE, calls |-> << >>,
          ui |-> <<"error: ElevenLabs init or test fetch failed">>]
    ELSE IF probe = "raise"
    THEN [client |-> "client", configured |-> FALSE,
          calls |-> <<Call("voices.get_all at startup", << >>, PyNone, NoPayload)>>,
          ui |-> <<"error: ElevenLabs init or test fetch failed">>]
    ELSE [client |-> "client", configured |-> TRUE,
          calls |-> <<Call("voices.get_all at startup", << >>, PyNone, NoPayload)>>,
          ui |-> << >>]

\* app.py:20-56
Configure ==
    /\ pc = "configure"
    /\ \E gem \in {"ok", "KeyError", "Exception"},
          key \in {"absent", "present", "raise"},
          ctor \in {"ok", "raise"}, probe \in {"ok", "raise"} :
          LET el == ElevenLabsConfiguration(key, ctor, probe)
          IN  /\ gemini_api_configured' = (gem = "ok")
              /\ elevenlabs_client' = el.client
              /\ elevenlabs_configured' = el.configured
              /\ calls' = calls \o el.calls
              /\ ui' = ui \o (IF gem = "ok" THEN << >> ELSE <<"error: Gemini configuration">>)
                         \o el.ui
    /\ pc' = "upload"
    /\ UNCHANGED <<uploaded_file, story_prompt, voices_result, voice_names,
                   selected_voice, voice_settings, generated_story, audio_stream,
                   audio_bytes, temp_file, exception>>

\* app.py:173-198: the uploader and the prompt box.
Upload ==
    /\ pc = "upload"
    /\ \E f \in {"none", "image", "unreadable"} :
          /\ uploaded_file' = IF f = "image" THEN "file" ELSE "None"
          /\ ui' = ui \o (IF f = "image" THEN <<"image">>
                          ELSE IF f = "unreadable" THEN <<"error: opening image">>
                          ELSE << >>)
    /\ story_prompt' \in {<< >>, <<"Tell", "a", "short", "story">>}
    /\ pc' = "voices"
    /\ UNCHANGED <<gemini_api_configured, elevenlabs_client, elevenlabs_configured,
                   voices_result, voice_names, selected_voice, voice_settings,
                   generated_story, audio_stream, audio_bytes, temp_file, calls,
                   exception>>

\* app.py:207: the voice options are shown.
ShowsVoiceOptions == elevenlabs_client # "None"

\* app.py:203-277
VoiceOptions ==
    /\ pc = "voices"
    /\ IF ShowsVoiceOptions
       THEN \E r \in CatalogResults :
            \E order \in Orders(r) :
               LET res == ResolveVoices(r, order)
               IN  /\ voices_result' = r
                   /\ voice_names' = res.voice_names
                   /\ selected_voice' \in res.options
                   /\ \E stability \in SliderStops, clarity \in SliderStops :
                         voice_settings' =
                             Mapping({"stability", "clarity"}, stability, clarity)
                   /\ ui' = ui \o <<"text: using ElevenLabs">> \o res.ui \o <<"sliders">>
                   /\ calls' = calls \o <<Call("voices.get_all in voice options",
                                               << >>, PyNone, NoPayload)>>
       ELSE /\ selected_voice' = PyNone
            /\ voice_settings' = NoneSettings
            /\ ui' = ui \o <<"text: using Google TTS">>
            /\ UNCHANGED <<voices_result, voice_names, calls>>
    /\ pc' = "button"
    /\ UNCHANGED <<gemini_api_configured, elevenlabs_client, elevenlabs_configured,
                   uploaded_file, story_prompt, generated_story, audio_stream,
                   audio_bytes, temp_file, exception>>

\* app.py:283
button_disabled == ~gemini_api_configured \/ uploaded_file = "None"

\* app.py:307 without its test of selected_voice.
UsesPrimary_ClientOnly(client, voice) == client # "None"

\* app.py:307: the primary backend is the one that speaks.
UsesPrimary(client, voice) == client # "None" /\ Truthy(voice)

\* The outcomes the selected speech backend can have.
SpeechOutcomes(client, voice) ==
    IF UsesPrimary(client, voice) THEN ElevenLabsOutcomes ELSE GttsOutcomes

\* app.py:305-312 retrying with gTTS when ElevenLabs returned None.
Synthesize_RetriesWithGtts(client, voice, vs, story, env) ==
    IF UsesPrimary(client, voice)
    THEN LET t == convert_text_to_speech_elevenlabs(client, story, voice, vs, env)
             g == convert_text_to_speech_gtts(story, env)
         IN  IF t.ret = NoneBytes
             THEN [g EXCEPT !.calls = t.calls \o g.calls, !.ui = t.ui \o g.ui,
                            !.file = t.file]
             ELSE t
    ELSE convert_text_to_speech_gtts(story, env)

\* app.py:305-312
Synthesize(client, voice, vs, story, env) ==
    IF UsesPrimary(client, voice)
    THEN convert_text_to_speech_elevenlabs(client, story, voice, vs, env)
    ELSE convert_text_to_speech_gtts(story, env)

\* app.py:314-318: what is rendered for audio_bytes; reading a name that was
\* never assigned raises NameError.
RenderAudio(audio) ==
    IF audio.tag = "unbound" THEN [ui |-> << >>, exception |-> "NameError"]
    ELSE IF TruthyBytes(audio)
    THEN [ui |-> <<"subheader: listen", "audio">>, exception |-> "none"]
    ELSE [ui |-> <<"warning: could not generate audio">>, exception |-> "none"]

\* What one pass through the button block leaves behind.
Outcome(story, stream, audio, file, shown, called, exc) ==
    [story |-> story, stream |-> stream, audio |-> audio, file |-> file,
     ui |-> shown, calls |-> called, exception |-> exc]

\* app.py:299-318: the outcomes once the image bytes are available.
StoryAndSpeech(gem) ==
    LET g == generate_story_from_image(gemini_api_configured, gem)
    IN  IF StoryAccepted(g.story)
        THEN {LET t == Synthesize(elevenlabs_client, selected_voice, voice_settings,
                                  g.story, env)
                  shown == IF t.raised = "none" THEN RenderAudio(t.ret)
                           ELSE [ui |-> << >>, exception |-> t.raised]
              IN  Outcome(g.story, env, t.ret, t.file,
                          g.ui \o <<"subheader: story", "story">> \o t.ui \o shown.ui,
                          g.calls \o t.calls, shown.exception) :
              env \in SpeechOutcomes(elevenlabs_client, selected_voice)}
        ELSE {LET shown == RenderAudio(audio_bytes)
              IN  Outcome(g.story, audio_stream, audio_bytes, temp_file,
                          g.ui \o shown.ui, g.calls, shown.exception)}

\* An outcome that only renders.
Rendered(shown) ==
    Outcome(generated_story, audio_stream, audio_bytes, temp_file, shown, << >>, "none")

\* app.py:285-329: the outcomes of the button block.
ButtonOutcomes ==
    (IF button_disabled THEN {}
     ELSE IF uploaded_file # "None" /\ story_prompt # << >>
     THEN {Rendered(<<"error: could not re-read file",
                      "warning: could not process the image">>)}
          \cup UNION {StoryAndSpeech(gem) : gem \in GeminiOutcomes}
     ELSE IF uploaded_file = "None"
     THEN {Rendered(<<"warning: upload an image first">>)}
     ELSE {Rendered(<<"warning: enter a story prompt">>)})
    \cup
    {IF ~gemini_api_configured
     THEN Rendered(<<"warning: cannot generate story">>)
     ELSE IF uploaded_file = "None"
     THEN Rendered(<<"warning: upload an image to enable the button">>)
     ELSE Rendered(<< >>)}

\* app.py:280-329
ButtonHandler ==
    /\ pc = "button"
    /\ \E o \in ButtonOutcomes :
          /\ generated_story' = o.story
          /\ audio_stream' = o.stream
          /\ audio_bytes' = o.audio
          /\ temp_file' = o.file
          /\ ui' = ui \o <<"button">> \o o.ui
          /\ calls' = calls \o o.calls
          /\ exception' = o.exception
    /\ pc' = "done"
    /\ UNCHANGED <<gemini_api_configured, elevenlabs_client, elevenlabs_configured,
                   uploaded_file, story_prompt, voices_result, voice_names,
                   selected_voice, voice_settings>>

\* Streamlit runs the script again, in a fresh namespace, on the next interaction.
Rerun ==
    /\ pc = "done"
    /\ pc' = "configure"
    /\ gemini_api_configured' = FALSE
    /\ elevenlabs_client' = "None"
    /\ elevenlabs_configured' = FALSE
    /\ uploaded_file' = "None"
    /\ story_prompt' = << >>
    /\ voices_result' = NoResult
    /\ voice_names' = << >>
    /\ selected_voice' = PyNone
    /\ voice_settings' = NoneSettings
    /\ generated_story' = << >>
    /\ audio_stream' = NoBackend
    /\ audio_bytes' = Unbound
    /\ temp_file' = "none"
    /\ ui' = << >>
    /\ calls' = << >>
    /\ exception' = "none"

Next == Configure \/ Upload \/ VoiceOptions \/ ButtonHandler \/ Rerun

Spec == Init /\ [][Next]_vars

\* ------------------------------------------------ the speech functions on their own
\* The arguments the two speech functions are tried on: any text, voice and
\* voice_settings a caller can pass, tone values outside [0.0, 1.0] included.
ToneInputs == {-20, 0, 30, 100, 150}
SettingsInputs ==
    {NoneSettings, Mapping({}, 0, 0)}
    \cup {Mapping({"stability"}, st, 0) : st \in ToneInputs}
    \cup {Mapping({"clarity"}, 0, cl) : cl \in ToneInputs}
    \cup {Mapping({"stability", "clarity"}, st, cl) : st \in ToneInputs, cl \in ToneInputs}
TextInputs == {<< >>, <<"Once", "upon", "a", "time">>}

InitTTS ==
    /\ pc = "call"
    /\ gemini_api_configured = FALSE
    /\ elevenlabs_client \in {"None", "client"}
    /\ elevenlabs_configured = (elevenlabs_client # "None")
    /\ uploaded_file = "None"
    /\ story_prompt = << >>
    /\ voices_result = NoResult
    /\ voice_names = << >>
    /\ selected_voice \in {Rachel, Aria}
    /\ voice_settings \in SettingsInputs
    /\ generated_story \in TextInputs
    /\ audio_stream = NoBackend
    /\ audio_bytes = Unbound
    /\ temp_file = "none"
    /\ ui = << >>
    /\ calls = << >>
    /\ exception = "none"

\* One call of convert_text_to_speech_elevenlabs(text, voice, voice_settings).
CallElevenLabs ==
    /\ pc = "call"
    /\ \E env \in ElevenLabsOutcomes :
          LET t == convert_text_to_speech_elevenlabs(elevenlabs_client, generated_story,
                                                     selected_voice, voice_settings, env)
          IN  /\ audio_stream' = env
              /\ audio_bytes' = t.ret
              /\ temp_file' = t.file
              /\ ui' = ui \o t.ui
              /\ calls' = calls \o t.calls
              /\ exception' = t.raised
    /\ pc' = "returned from elevenlabs"
    /\ UNCHANGED <<gemini_api_configured, elevenlabs_client, elevenlabs_configured,
                   uploaded_file, story_prompt, voices_result, voice_names,
                   selected_voice, voice_settings, generated_story>>

\* One call of convert_text_to_speech_gtts(text).
CallGtts ==
    /\ pc = "call"
    /\ \E env \in GttsOutcomes :
          LET t == convert_text_to_speech_gtts(generated_story, env)
          IN  /\ audio_stream' = env
              /\ audio_bytes' = t.ret
              /\ temp_file' = t.file
              /\ ui' = ui \o t.ui
              /\ calls' = calls \o t.calls
              /\ exception' = t.raised
    /\ pc' = "returned from gtts"
    /\ UNCHANGED <<gemini_api_configured, elevenlabs_client, elevenlabs_configured,
                   uploaded_file, story_prompt, voices_result, voice_names,
                   selected_voice, voice_settings, generated_story>>

NextTTS == CallElevenLabs \/ CallGtts

SpecTTS == InitTTS /\ [][NextTTS]_vars

\* ------------------------------------------------------------------ properties
\* The element was rendered in this script run.
Shown(element) == \E i \in DOMAIN ui : ui[i] = element
\* A backend operation was called in this script run.
Called(op) == \E i \in DOMAIN calls : calls[i].op = op
\* The three failure sentinels, by prefix.
IsSentinel(story) ==
    \/ StartsWith(story, <<"Story", "generation", "unavailable">>)
    \/ StartsWith(story, <<"Could", "not", "generate">>)
    \/ StartsWith(story, <<"An", "error", "occurred">>)
\* The script run is past the voice options.
PastVoiceOptions == pc \in {"button", "done"}
\* voices_result is one of the three shapes that carry a list of voice records.
CarriesList(r) ==
    \/ r.shape = "GetVoicesResponse" /\ r.elems[1].isList
    \/ r.shape = "tuple" /\ Len(r.elems) = 2 /\ r.elems[2].isList
    \/ r.shape = "list"
\* The voice records such a result carries.
RecordsIn(r) == r.elems[Len(r.elems)].list
\* The values of the .name attributes of the records that have one.
NamesIn(l) == {l[i].name : i \in {j \in DOMAIN l : l[j].attr \in {"str", "None"}}}
\* The names of the records whose .name is a str.
StrNamesIn(l) == {l[i].name : i \in {j \in DOMAIN l : l[j].attr = "str"}}
\* Strictly ascending, so without duplicates.
Ascending(v) == \A i, j \in DOMAIN v : i < j => StrLess(v[i], v[j])
\* The per-item warnings rendered.
ItemWarnings ==
    Cardinality({i \in DOMAIN ui :
        ui[i] \in {"warning: item has no .name", "warning: error processing item"}})
\* A tone value clamped to [0.0, 1.0].
Clamp(x) == IF x < 0 THEN 0 ELSE IF x > 100 THEN 100 ELSE x

\* C1: when generate_story_from_image returned a failure sentinel in a button
\* action, neither speech function called its backend and no audio player is shown.
C1_NoSpeechOnSentinel ==
    (pc = "done" /\ Called("generate_content") /\ IsSentinel(generated_story))
        => /\ ~Called("generate")
           /\ ~Called("gTTS")
           /\ ~Shown("audio")

C1_Witness ==
    /\ pc = "done"
    /\ Called("generate_content")
    /\ generated_story = StoryMalformed
    /\ ~Shown("audio")

\* C2: the ElevenLabs backend is used for catalog resolution or synthesis only in
\* runs where the credential was present and the startup probe succeeded
\* (elevenlabs_configured); after a failed probe the voice options skip the
\* catalog and synthesis goes to gTTS.
C2_PrimaryOnlyWhenProbed ==
    \A i \in DOMAIN calls :
        calls[i].op \in {"voices.get_all in voice options", "generate"}
            => elevenlabs_configured

\* C3: a button action ends with a rendered result or warning and no unhandled
\* exception, whatever narrative generation and speech synthesis did.
C3_NoUnhandledException == pc = "done" => exception = "none"

\* C4: the names resolved from a voice list depend on the records alone, not on
\* which of the three shapes carried them: the distinct .name values in ascending
\* order (or, where sorting them raises, the default voice for every shape alike);
\* any other shape gives no names and a warning, not an error.
C4_ShapeIndependentNames ==
    (PastVoiceOptions /\ voices_result.shape \notin {"unset", "raise"})
        => IF CarriesList(voices_result)
           THEN LET N == NamesIn(RecordsIn(voices_result))
                IN  IF SortRaises(N)
                    THEN /\ Shown("error: could not fetch voices")
                         /\ selected_voice = Rachel
                    ELSE /\ ToSet(voice_names) = N
                         /\ Ascending(voice_names)
                         /\ ~Shown("error: could not fetch voices")
                         /\ N # {} => selected_voice \in N
           ELSE /\ voice_names = << >>
                /\ Shown("warning: unexpected structure")
                /\ ~Shown("error: could not fetch voices")

C4_Witness ==
    /\ pc = "button"
    /\ voices_result = AsTuple(<<VoiceNamed(Bella), VoiceNamed(Aria)>>)
    /\ voice_names = <<Aria, Bella>>

\* C5: when a voice list mixes records without a usable display name with
\* well-formed ones, each unusable record is skipped with its own warning and the
\* voice list is exactly the distinct names of the well-formed records in
\* ascending order; the listing is never abandoned for the default voice.
C5_BadRecordsSkipped ==
    LET l == RecordsIn(voices_result)
    IN  (/\ PastVoiceOptions
         /\ CarriesList(voices_result)
         /\ \E i \in DOMAIN l : l[i].attr # "str"
         /\ \E i \in DOMAIN l : l[i].attr = "str")
            => /\ ToSet(voice_names) = StrNamesIn(l)
               /\ Ascending(voice_names)
               /\ ~Shown("error: could not fetch voices")
               /\ ItemWarnings = Cardinality({i \in DOMAIN l : l[i].attr # "str"})

\* C6: when voices.get_all raises in the voice options, the selected voice is
\* "Rachel", a diagnostic is shown, the tone parameters are still collected, and a
\* button action that shows the story has generated it and then called the
\* ElevenLabs backend with voice "Rachel" and those tone parameters, not gTTS.
C6_FetchFailureUsesRachel ==
    (PastVoiceOptions /\ voices_result = GetAllRaised)
        => /\ selected_voice = Rachel
           /\ Shown("error: could not fetch voices")
           /\ ~voice_settings.isNone
           /\ voice_settings.keys = {"stability", "clarity"}
           /\ (pc = "done" /\ Shown("story"))
                => /\ Len(calls) >= 2
                   /\ calls[Len(calls) - 1].op = "generate_content"
                   /\ calls[Len(calls)] =
                          Call("generate", generated_story, Rachel,
                               [present |-> TRUE,
                                stability |-> voice_settings.stability,
                                similarity_boost |-> voice_settings.clarity])
                   /\ ~Called("gTTS")

C6_Witness ==
    /\ pc = "done"
    /\ voices_result = GetAllRaised
    /\ Called("generate")
    /\ Shown("audio")

\* The voice_settings argument holds both sliders' keys.
BothTones == ~voice_settings.isNone /\ voice_settings.keys = {"stability", "clarity"}

\* C7 as claimed: the payload sent carries the stability and clarity inputs
\* clamped to [0.0, 1.0].
C7_ClampedPayload ==
    (pc = "returned from elevenlabs" /\ calls # << >> /\ BothTones)
        => calls[1].payload =
               [present |-> TRUE,
                stability |-> Clamp(voice_settings.stability),
                similarity_boost |-> Clamp(voice_settings.clarity)]

\* C7: every call of convert_text_to_speech_elevenlabs with a voice_settings
\* mapping of both tones sends stability as stability and clarity as
\* similarity_boost, each exactly as given.
C7_VerbatimPayload ==
    (pc = "returned from elevenlabs" /\ calls # << >> /\ BothTones)
        => calls[1].payload =
               [present |-> TRUE,
                stability |-> voice_settings.stability,
                similarity_boost |-> voice_settings.clarity]

C7_Witness ==
    /\ pc = "returned from elevenlabs"
    /\ calls # << >>
    /\ voice_settings = Mapping({"stability", "clarity"}, 30, 100)
    /\ calls[1].payload.similarity_boost = 100

\* C8: a synthesis call returns the whole audio or None, never a part of it: the
\* ElevenLabs result is the concatenation of every chunk in order, and when the
\* backend raises, returns no iterable or the stream raises part-way the result
\* is None with a diagnostic and no exception; likewise when gTTS raises.
C8_CompleteOrNone ==
    /\ pc \in {"returned from elevenlabs", "returned from gtts"}
         => /\ exception = "none"
            /\ audio_bytes.tag \in {"None", "bytes"}
            /\ audio_bytes.tag = "bytes"
                 => /\ audio_stream.kind = "stream"
                    /\ ~audio_stream.raises
                    /\ audio_bytes.data = Concat(audio_stream.chunks)
            /\ (calls # << >> /\ (audio_stream.kind # "stream" \/ audio_stream.raises))
                 => /\ audio_bytes = NoneBytes
                    /\ ui # << >>
            /\ (/\ calls # << >>
                /\ audio_stream.kind = "stream"
                /\ ~audio_stream.raises
                /\ audio_stream.tmp = "ok")
                 => audio_bytes = Bytes(Concat(audio_stream.chunks))

C8_Witness ==
    /\ pc = "returned from elevenlabs"
    /\ calls # << >>
    /\ audio_stream = BackendStream(<<<<1>>, <<2, 3>>>>, TRUE, "ok")
    /\ audio_bytes = NoneBytes

\* C9 as claimed: in every action where gTTS speaks, no tone parameters exist.
C9_NoToneOnFallback ==
    (pc = "done" /\ Called("gTTS")) => voice_settings = NoneSettings

\* C9: tone parameters exist exactly when an ElevenLabs client exists and reach a
\* synthesis call only when ElevenLabs is the backend selected; gTTS is called
\* with the story alone, no voice and no tone, also when tone parameters exist.
C9_ToneOnlyToPrimary ==
    PastVoiceOptions
        => /\ (voice_settings # NoneSettings) <=> (elevenlabs_client # "None")
           /\ \A i \in DOMAIN calls :
                /\ calls[i].op = "gTTS"
                     => /\ calls[i] = Call("gTTS", generated_story, PyNone, NoPayload)
                        /\ ~(elevenlabs_client # "None" /\ Truthy(selected_voice))
                /\ calls[i].op = "generate"
                     => /\ elevenlabs_client # "None"
                        /\ Truthy(selected_voice)
                        /\ calls[i].payload.present

C9_Witness ==
    /\ pc = "done"
    /\ Called("gTTS")
    /\ voice_settings # NoneSettings
    /\ ~Called("generate")

\* C10: the temporary file that stages the audio bytes no longer exists when
\* convert_text_to_speech_elevenlabs has returned, on every path that created it.
C10_TempFileRemoved == pc = "done" => temp_file # "exists"

\* How often a backend operation was called in this script run.
TimesCalled(op) == Cardinality({i \in DOMAIN calls : calls[i].op = op})

\* C11: within one button action the narrative is generated at most once and
\* before any synthesis call, and at most one speech backend is called: ElevenLabs
\* exactly when a client exists and the selected voice is non-empty, otherwise
\* gTTS; a None from ElevenLabs is never followed by a call to gTTS.
C11_OneBackendAfterStory ==
    /\ TimesCalled("generate_content") <= 1
    /\ TimesCalled("generate") + TimesCalled("gTTS") <= 1
    /\ \A i \in DOMAIN calls :
         calls[i].op \in {"generate", "gTTS"}
            => /\ \E j \in 1..(i - 1) : calls[j].op = "generate_content"
               /\ (calls[i].op = "generate")
                    <=> (elevenlabs_client # "None" /\ selected_voice \notin {PyNone, << >>})
    /\ (pc = "done" /\ Called("generate") /\ audio_bytes = NoneBytes) => ~Called("gTTS")

C11_Witness ==
    /\ pc = "done"
    /\ Len(calls) >= 2
    /\ calls[Len(calls) - 1].op = "generate_content"
    /\ calls[Len(calls)].op = "generate"
    /\ audio_stream = BackendRaises
    /\ audio_bytes = NoneBytes
    /\ Shown("warning: could not generate audio")

====
